---- MODULE Spec2Model ----
(***************************************************************************)
(* OpenClaw multi-instance manager (ocm.py): the registry, the port        *)
(* allocator and the create / delete / edit / start / stop / backup /      *)
(* restore handlers of OpenClawManager, one action per handler.            *)
(*                                                                         *)
(* Every handler is a pure operator from the world it finds (registry      *)
(* file, state trees, config files, service descriptors, supervisor        *)
(* state, staging directories, archives) to the world it leaves and its    *)
(* outcome.  What the handler cannot decide itself is an input of the      *)
(* action: the answers of the liveness probe, of the supervisor and of     *)
(* the confirmation prompt, and the step of its try block at which an      *)
(* I/O call raises (0: none does).                                         *)
(***************************************************************************)
EXTENDS Integers, Sequences, FiniteSets, TLC

\* ------------------------------------------------------------ constants
BASE_PORT == 18789
PORT_INCREMENT == 20
\* A name is the sequence of its characters, so that the name pattern is
\* computed on it the way re.match computes it.
MAIN_PROFILE == <<"m", "a", "i", "n">>

\* ------------------------------------------------------------ bounds
\* Allocation slots (from BASE_PORT up) the liveness probe may report busy.
MaxLive == 1
\* Invocations of the tool in one behaviour.
MaxOps == 2

\* ------------------------------------------------------------ inputs
\* An optional argument is a sequence: empty when absent, <<x>> when given.
\* An absent name is the empty name, which the handlers treat as absent too.
NoPort == <<>>
NoName == <<>>
NoArchive == <<>>
Worker == <<"w", "1">>
\* "w<newline>": passes re.match with a trailing "$"; "w!": does not.
NewlineName == <<"w", "\n">>
BadName == <<"w", "!">>
Names == {Worker, NewlineName, MAIN_PROFILE, BadName}
\* Names a caller passes to restore with --name.
RestoreNames == {Worker, MAIN_PROFILE}
\* An archive the caller holds from an earlier backup of w1, made before the
\* registry of this host was first written.
OldArchive == [name |-> Worker, port |-> BASE_PORT, tree |-> TRUE, cfg |-> TRUE]
SlotPort(k) == BASE_PORT + k * PORT_INCREMENT
\* Ports a caller passes with --port.
ExplicitPorts == {80}
\* Values a caller sets gateway.port to with edit.
EditPorts == {80}
LiveSets == SUBSET {SlotPort(k) : k \in 0..(MaxLive - 1)}

\* ------------------------------------------------------------ helpers
Put(f, k, v) == [x \in (DOMAIN f) \cup {k} |-> IF x = k THEN v ELSE f[x]]
Drop(f, k) == [x \in (DOMAIN f) \ {k} |-> f[x]]
Empty == [x \in {} |-> 0]
\* What a handler returns: the host as it leaves it, the outcome, the port
\* it gave out, and the external programs it ran.
Ret(w, res) == [w |-> w, res |-> res, port |-> 0, calls |-> {}]
RetPort(w, res, port) == [w |-> w, res |-> res, port |-> port, calls |-> {}]
Calls(r, programs) == [r EXCEPT !.calls = @ \cup programs]

\* ------------------------------------------------------------ names
Lower == {"a", "b", "c", "d", "e", "f", "g", "h", "i", "j", "k", "l", "m",
          "n", "o", "p", "q", "r", "s", "t", "u", "v", "w", "x", "y", "z"}
Upper == {"A", "B", "C", "D", "E", "F", "G", "H", "I", "J", "K", "L", "M",
          "N", "O", "P", "Q", "R", "S", "T", "U", "V", "W", "X", "Y", "Z"}
Digit == {"0", "1", "2", "3", "4", "5", "6", "7", "8", "9"}
\* The character class [a-zA-Z0-9_-].
NameClass == Lower \cup Upper \cup Digit \cup {"_", "-"}
AllInClass(s) == \A i \in 1..Len(s) : s[i] \in NameClass
\* The whole of s is one or more characters of the class.
FullMatch(s) == Len(s) >= 1 /\ AllInClass(s)
\* re.match(r"^[a-zA-Z0-9_-]+$", name): "$" matches at the end of the string
\* and also just before a newline that ends it.
NameMatches(s) ==
    \/ FullMatch(s)
    \/ /\ Len(s) >= 2
       /\ s[Len(s)] = "\n"
       /\ FullMatch(SubSeq(s, 1, Len(s) - 1))

\* ------------------------------------------------------------ Instance
\* The record of an instance as the registry holds it.
Instance(name, port) ==
    [port |-> port, autostart |-> FALSE, status |-> "stopped"]

\* ------------------------------------------------------------ Registry
RegistryGet(reg, name) == name \in DOMAIN reg
RegistryAdd(reg, name, inst) == Put(reg, name, inst)
RegistryRemove(reg, name) == Drop(reg, name)
UsedPorts(reg) == {reg[n].port : n \in DOMAIN reg}
RECURSIVE ScanPort(_, _, _)
ScanPort(port, used_ports, live) ==
    IF port \in used_ports \/ port \in live
    THEN ScanPort(port + PORT_INCREMENT, used_ports, live)
    ELSE port
\* Registry.next_port; live: the ports is_port_listening answers True for.
\* The variant before it does not consult the probe.
next_port_unprobed(reg, live) == ScanPort(BASE_PORT, UsedPorts(reg), {})
next_port(reg, live) == ScanPort(BASE_PORT, UsedPorts(reg), live)
\* Registry.port_in_use; the variant before it finds no port in use.
port_in_use_never(reg, port) == FALSE
port_in_use(reg, port) == \E n \in DOMAIN reg : reg[n].port = port

\* ------------------------------------------------------------ state
VARIABLES
    registry,      \* registry.json "instances": name -> Instance record
    port_counter,  \* registry.json "port_counter"
    state_dir,     \* ~/.openclaw-<name>: name -> the tree has content
    stale,         \* names whose state tree holds files from before its mkdir
    config,        \* ~/.openclaw/openclaw-<name>.json: name -> gateway.port
    service,       \* names whose unit file exists
    running,       \* names whose unit the supervisor reports active
    temp,          \* ~/temp_restore_<name>: name -> it holds a state/ tree
    archive,       \* the backup archive file: <<>> or <<its entries>>
    issued,        \* history: the ports next_port has returned to create
    last,          \* history: the last invocation and its outcome
    ops,           \* history: the number of invocations so far
    main_config,   \* ~/.openclaw/openclaw.json, the reference configuration
    composed,      \* the config document the last create composed
    restored,      \* that document as a restore under another name wrote it
    registry_file, \* registry.json as the chunks written to it so far
    invocations,   \* the invocations in flight: each one's position and _data
    ufw,           \* the firewall: how its commands end, and the ports it allows
    edited         \* the composed config document as the last edit left it

vars == <<registry, port_counter, state_dir, stale, config, service, running,
          temp, archive, issued, last, ops, main_config, composed, restored,
          registry_file, invocations, ufw, edited>>

World ==
    [registry |-> registry, port_counter |-> port_counter,
     state_dir |-> state_dir, stale |-> stale, config |-> config,
     service |-> service, running |-> running, temp |-> temp,
     archive |-> archive, ufw |-> ufw]

\* shutil.rmtree of the state tree of name.
rmtree(w, name) ==
    [w EXCEPT !.state_dir = Drop(@, name), !.stale = @ \ {name}]

\* state_dir().mkdir(parents=True, exist_ok=True): a tree that is there
\* stays as it is, content is whether it has any; then the handler's own
\* files come on top of what was there.
mkdir_state(w, name, content) ==
    LET old == name \in DOMAIN w.state_dir /\ w.state_dir[name]
    IN  [w EXCEPT !.state_dir = Put(@, name, content \/ old),
                  !.stale = IF old THEN @ \cup {name} ELSE @]

\* A step of a try block is done when the raise, if any, comes after it.
Done(fault, step) == fault = 0 \/ fault > step

\* ------------------------------------------------------------ documents
\* A JSON document: leaf maps the path of every scalar to its value, empty
\* holds the paths of the empty objects.  A path is the sequence of keys
\* from the root.
NoDoc == [leaf |-> <<>>, empty |-> {}]
Leaf(path, v) == [leaf |-> [p \in {path} |-> v], empty |-> {}]
EmptyDict(path) == [leaf |-> <<>>, empty |-> {path}]
Paths(d) == (DOMAIN d.leaf) \cup d.empty
IsPrefix(a, p) == Len(a) <= Len(p) /\ SubSeq(p, 1, Len(a)) = a
\* key in d[...]: the path leads to a value.
HasKey(d, path) == \E p \in Paths(d) : IsPrefix(path, p)
\* The paths of d that satisfy keep.
Select(d, keep) ==
    [leaf |-> [p \in {q \in DOMAIN d.leaf : q \in keep} |-> d.leaf[p]],
     empty |-> d.empty \cap keep]
Under(d, path) == Select(d, {p \in Paths(d) : IsPrefix(path, p)})
Without(d, path) == Select(d, {p \in Paths(d) : ~IsPrefix(path, p)})
\* An object that has got a member is not an empty object any more.
Tidy(d) ==
    [d EXCEPT !.empty = {p \in @ : ~\E q \in Paths(d) : q # p /\ IsPrefix(p, q)}]
\* The members of b put into a, each at its own path.
Plus(a, b) ==
    Tidy([leaf |-> [p \in (DOMAIN a.leaf) \cup (DOMAIN b.leaf) |->
                      IF p \in DOMAIN b.leaf THEN b.leaf[p] ELSE a.leaf[p]],
          empty |-> a.empty \cup b.empty])
\* d[path] = sub, where sub holds its members under path.
Assign(d, path, sub) == Plus(Without(d, path), sub)
TopKeys(d) == {p[1] : p \in Paths(d)}
\* dict.update: every top-level key of b replaces the one of a, whole.
Update(a, b) ==
    Plus(Select(a, {p \in Paths(a) : p[1] \notin TopKeys(b)}), b)

\* The spelling of the keys of the documents of the model.
Spell(k) ==
    CASE k = "agents" -> <<"a", "g", "e", "n", "t", "s">>
      [] k = "agent" -> <<"a", "g", "e", "n", "t">>
      [] k = "defaults" -> <<"d", "e", "f", "a", "u", "l", "t", "s">>
      [] k = "model" -> <<"m", "o", "d", "e", "l">>
      [] k = "models" -> <<"m", "o", "d", "e", "l", "s">>
      [] k = "primary" -> <<"p", "r", "i", "m", "a", "r", "y">>
      [] k = "providers" -> <<"p", "r", "o", "v", "i", "d", "e", "r", "s">>
      [] k = "openai" -> <<"o", "p", "e", "n", "a", "i">>
      [] k = "Tailscale-gw" -> <<"T", "a", "i", "l", "s", "c", "a", "l", "e", "-", "g", "w">>
      [] k = "tailscale" -> <<"t", "a", "i", "l", "s", "c", "a", "l", "e">>
      [] k = "baseURL" -> <<"b", "a", "s", "e", "U", "R", "L">>
      [] k = "baseUrl" -> <<"b", "a", "s", "e", "U", "r", "l">>
      [] k = "apiKey" -> <<"a", "p", "i", "K", "e", "y">>
      [] k = "api" -> <<"a", "p", "i">>
      [] k = "organization" -> <<"o", "r", "g", "a", "n", "i", "z", "a", "t", "i", "o", "n">>
      [] k = "mode" -> <<"m", "o", "d", "e">>
      [] k = "host" -> <<"h", "o", "s", "t">>
      [] k = "workspace" -> <<"w", "o", "r", "k", "s", "p", "a", "c", "e">>
      [] k = "gateway" -> <<"g", "a", "t", "e", "w", "a", "y">>
      [] k = "port" -> <<"p", "o", "r", "t">>
      [] k = "bind" -> <<"b", "i", "n", "d">>
      [] k = "auth" -> <<"a", "u", "t", "h">>
      [] k = "token" -> <<"t", "o", "k", "e", "n">>
      [] k = "meta" -> <<"m", "e", "t", "a">>
      [] k = "lastTouchedVersion" -> <<"l", "a", "s", "t", "T", "o", "u", "c", "h", "e", "d",
                                       "V", "e", "r", "s", "i", "o", "n">>
      [] k = "lastTouchedAt" -> <<"l", "a", "s", "t", "T", "o", "u", "c", "h", "e", "d", "A", "t">>
      [] k = "compaction" -> <<"c", "o", "m", "p", "a", "c", "t", "i", "o", "n">>
      [] k = "maxConcurrent" -> <<"m", "a", "x", "C", "o", "n", "c", "u", "r", "r", "e", "n", "t">>
      [] k = "subagents" -> <<"s", "u", "b", "a", "g", "e", "n", "t", "s">>
UpperCase == <<"A", "B", "C", "D", "E", "F", "G", "H", "I", "J", "K", "L", "M",
               "N", "O", "P", "Q", "R", "S", "T", "U", "V", "W", "X", "Y", "Z">>
LowerCase == <<"a", "b", "c", "d", "e", "f", "g", "h", "i", "j", "k", "l", "m",
               "n", "o", "p", "q", "r", "s", "t", "u", "v", "w", "x", "y", "z">>
\* str.lower, on a sequence of characters.
lower(s) ==
    [i \in 1..Len(s) |->
       IF s[i] \in Upper
       THEN LowerCase[CHOOSE j \in 1..Len(UpperCase) : UpperCase[j] = s[i]]
       ELSE s[i]]
\* sub in s
Contains(s, sub) ==
    \E i \in 0..(Len(s) - Len(sub)) : SubSeq(s, i + 1, i + Len(sub)) = sub
\* "tailscale" in key.lower()
NamesTailscale(k) == Contains(lower(Spell(k)), Spell("tailscale"))

\* ------------------------------------------------------------ ConfigInheritor
\* Instance.state_dir and the workspace directory under it, as paths below
\* the home directory.
StateDir(name) == <<".openclaw-", name>>
Workspace(name) == StateDir(name) \o <<"workspace">>

\* ~/.openclaw/openclaw.json: kind is "absent", "unparseable" or "json".
MainFile(kind, doc) == [kind |-> kind, doc |-> doc]
\* What a call gives: it raised, or it returned doc.
Raised == [raised |-> TRUE, doc |-> NoDoc]
Returned(doc) == [raised |-> FALSE, doc |-> doc]

\* ConfigInheritor.load_main_config: json.load raises on a file that is not
\* JSON, and nothing here catches it.
load_main_config(file) ==
    IF file.kind = "absent" THEN Returned(NoDoc)
    ELSE IF file.kind = "unparseable" THEN Raised
    ELSE Returned(file.doc)

AgentsDefaults == <<"agents", "defaults">>
ProviderKeys == {"baseURL", "apiKey", "models", "baseUrl", "api"}
ProviderNames(cfg) ==
    {p[2] : p \in {q \in Paths(cfg) : Len(q) >= 2 /\ q[1] = "providers"}}

\* ConfigInheritor.extract_inheritable
extract_inheritable(cfg) ==
    LET agents ==
          IF HasKey(cfg, AgentsDefaults)
          THEN Plus(EmptyDict(AgentsDefaults),
                    Plus(Under(cfg, AgentsDefaults \o <<"model">>),
                         Under(cfg, AgentsDefaults \o <<"models">>)))
          ELSE NoDoc
        kept == {n \in ProviderNames(cfg) : ~NamesTailscale(n)}
        providers ==
          IF HasKey(cfg, <<"providers">>)
          THEN Plus([leaf |-> <<>>,
                     empty |-> {<<"providers">>} \cup {<<"providers", n>> : n \in kept}],
                    Select(cfg, {p \in Paths(cfg) :
                                      /\ Len(p) >= 3
                                      /\ p[1] = "providers"
                                      /\ p[2] \in kept
                                      /\ p[3] \in ProviderKeys}))
          ELSE NoDoc
        models == Under(cfg, <<"models">>)
    IN  Plus(Plus(agents, providers), models)

\* The new_config literal of create_instance_config; token: what
\* os.urandom(24).hex() gave, now: what datetime.now() gave.
DefaultConfig(name, port, token, now) ==
    LET gateway == <<"gateway">>
    IN  Plus(Plus(Plus(Leaf(<<"meta", "lastTouchedVersion">>, "2026.2.15"),
                       Leaf(<<"meta", "lastTouchedAt">>, now)),
                  Plus(Plus(Leaf(gateway \o <<"mode">>, "local"),
                            Leaf(gateway \o <<"port">>, port)),
                       Plus(Leaf(gateway \o <<"bind">>, "loopback"),
                            Plus(Leaf(gateway \o <<"auth", "mode">>, "token"),
                                 Leaf(gateway \o <<"auth", "token">>, token))))),
             Plus(Plus(Leaf(AgentsDefaults \o <<"workspace">>, Workspace(name)),
                       Leaf(AgentsDefaults \o <<"compaction", "mode">>, "safeguard")),
                  Plus(Leaf(AgentsDefaults \o <<"maxConcurrent">>, 4),
                       Leaf(AgentsDefaults \o <<"subagents", "maxConcurrent">>, 8))))

\* ConfigInheritor.create_instance_config
create_instance_config(file, name, port, token, now) ==
    LET main == load_main_config(file)
        new_config == Update(DefaultConfig(name, port, token, now),
                             extract_inheritable(main.doc))
    IN  IF main.raised THEN Raised
        ELSE IF /\ HasKey(new_config, <<"agent">>)
                /\ HasKey(new_config, <<"agents">>)
                /\ HasKey(new_config, AgentsDefaults)
                /\ HasKey(new_config, AgentsDefaults \o <<"model">>)
        THEN Returned(Without(new_config, <<"agent">>))
        ELSE Returned(new_config)

\* The document create_instance writes: create_instance_config, then the
\* model asked for with --model (<<>>: none) as the primary model.
NoModel == <<>>
instance_config(file, name, port, model, token, now) ==
    LET made == create_instance_config(file, name, port, token, now)
        path == AgentsDefaults \o <<"model">>
    IN  IF made.raised \/ model = NoModel THEN made
        ELSE Returned(Assign(made.doc, path, Leaf(path \o <<"primary">>, model[1])))

\* The config member of an archive as restore_instance writes it for the
\* restored instance: gateway.port is set, nothing else is touched; a
\* document without "gateway" raises KeyError.
restore_config(doc, port) ==
    IF ~HasKey(doc, <<"gateway">>) THEN Raised
    ELSE Returned(Assign(doc, <<"gateway", "port">>, Leaf(<<"gateway", "port">>, port)))

\* The key of edit as the caller types it: a sequence of pieces, the dot
\* being a piece of its own.  key.split("."): the pieces between the dots.
RECURSIVE split(_)
split(key) ==
    IF \A i \in 1..Len(key) : key[i] # "." THEN <<key>>
    ELSE LET dot == CHOOSE i \in 1..Len(key) :
                      key[i] = "." /\ \A j \in 1..(i - 1) : key[j] # "."
         IN  <<SubSeq(key, 1, dot - 1)>> \o split(SubSeq(key, dot + 1, Len(key)))
\* The key a piece names; between two dots with nothing between them, "".
KeyOf(piece) == IF piece = <<>> THEN "" ELSE piece[1]
KeyPath(key) == [i \in 1..Len(split(key)) |-> KeyOf(split(key)[i])]

\* A value that edit sets: a number, a boolean, a string (its characters)
\* or an empty object.
JsonValue(type, num, bool, text) ==
    [type |-> type, num |-> num, bool |-> bool, text |-> text]
DigitSeq == <<"0", "1", "2", "3", "4", "5", "6", "7", "8", "9">>
DigitValue(c) == (CHOOSE i \in 1..10 : DigitSeq[i] = c) - 1
RECURSIVE Number(_)
Number(s) ==
    IF s = <<>> THEN 0
    ELSE 10 * Number(SubSeq(s, 1, Len(s) - 1)) + DigitValue(s[Len(s)])
\* The JSON texts: an integer without a leading zero, true, false, a string
\* in double quotes without quote or backslash inside, an empty object.
IsJsonNumber(s) ==
    /\ Len(s) >= 1
    /\ \A i \in 1..Len(s) : s[i] \in Digit
    /\ Len(s) > 1 => s[1] # "0"
IsJsonString(s) ==
    /\ Len(s) >= 2
    /\ s[1] = "\"" /\ s[Len(s)] = "\""
    /\ \A i \in 2..(Len(s) - 1) : s[i] \notin {"\"", "\\"}
\* json.loads(value), and parsed_value = value when it raises.  The variant
\* before it takes every raw value as the literal string.
parsed_value_literal(raw) == JsonValue("string", 0, FALSE, raw)
parsed_value(raw) ==
    IF IsJsonNumber(raw) THEN JsonValue("number", Number(raw), FALSE, <<>>)
    ELSE IF raw = <<"t", "r", "u", "e">> THEN JsonValue("boolean", 0, TRUE, <<>>)
    ELSE IF raw = <<"f", "a", "l", "s", "e">> THEN JsonValue("boolean", 0, FALSE, <<>>)
    ELSE IF IsJsonString(raw)
    THEN JsonValue("string", 0, FALSE, SubSeq(raw, 2, Len(raw) - 1))
    ELSE IF raw = <<"{", "}">> THEN JsonValue("object", 0, FALSE, <<>>)
    ELSE JsonValue("string", 0, FALSE, raw)

\* The loop of edit_instance over keys[:-1] from the n-th key on, then the
\* assignment of the last key: a key that is not there gets an empty
\* mapping; a scalar on the way raises TypeError.
RECURSIVE set_path(_, _, _, _)
set_path(doc, keys, n, value) ==
    IF SubSeq(keys, 1, n - 1) \in DOMAIN doc.leaf THEN Raised
    ELSE IF n = Len(keys)
    THEN Returned(Assign(doc, keys,
                         IF value.type = "object" THEN EmptyDict(keys)
                         ELSE Leaf(keys, value)))
    ELSE set_path(IF HasKey(doc, SubSeq(keys, 1, n)) THEN doc
                  ELSE Plus(doc, EmptyDict(SubSeq(keys, 1, n))),
                  keys, n + 1, value)

\* The config document as edit_instance writes it back; raised: the file
\* is left as it was.
edit_config(doc, key, raw) == set_path(doc, KeyPath(key), 1, parsed_value(raw))

\* ------------------------------------------------------------ UFWManager
\* The firewall as the tool meets it.  status: what "ufw status" reports,
\* or that running it raises (no sudo, no ufw); allow, delete: how the
\* command ends: with exit status zero, with another one, or by raising;
\* rules: the ports the firewall allows.
UfwStatus == {"active", "inactive", "raises"}
UfwOutcome == {"ok", "nonzero", "raises"}
Firewall(status, allow, delete, rules) ==
    [status |-> status, allow |-> allow, delete |-> delete, rules |-> rules]
\* A host whose firewall is switched off.
NoFirewall == Firewall("inactive", "ok", "ok", {})

\* What a call of UFWManager gives: the host after it, the value returned,
\* and whether an exception left it.
UfwRet(w, value, raised) == [w |-> w, value |-> value, raised |-> raised]

\* UFWManager.is_enabled: every exception is caught.
is_enabled(w) == UfwRet(w, w.ufw.status = "active", FALSE)

\* UFWManager.allow_port: the exception is caught and False returned.  The
\* variant before it lets the exception out.
allow_port_uncaught(w, port) ==
    IF w.ufw.allow = "ok"
    THEN UfwRet([w EXCEPT !.ufw.rules = @ \cup {port}], TRUE, FALSE)
    ELSE UfwRet(w, FALSE, w.ufw.allow = "raises")
allow_port(w, port) ==
    IF w.ufw.allow = "ok"
    THEN UfwRet([w EXCEPT !.ufw.rules = @ \cup {port}], TRUE, FALSE)
    ELSE UfwRet(w, FALSE, FALSE)

\* UFWManager.delete_port: the exit status is not looked at; the exception
\* is caught and False returned.
delete_port(w, port) ==
    IF w.ufw.delete = "ok"
    THEN UfwRet([w EXCEPT !.ufw.rules = @ \ {port}], TRUE, FALSE)
    ELSE UfwRet(w, w.ufw.delete = "nonzero", FALSE)

\* ------------------------------------------------------------ create
\* OpenClawManager._cleanup_partial: the state tree, the config file and the
\* unit file are removed; the removals themselves are taken to succeed (one
\* call of the forward path fails per invocation).  The variant before it
\* removes the state tree only.
cleanup_partial_tree_only(w, name) ==
    rmtree(w, name)
cleanup_partial(w, name) ==
    [rmtree(w, name) EXCEPT !.config = Drop(@, name),
                            !.service = @ \ {name}]

\* The steps of create_instance's try block, by the number of the step that
\* raises: 1 mkdir of the state directory, 2 mkdir of its sub-directories,
\* 3 create_instance_config (json.load of the main config), 4 the write of
\* the config file, 5 the write of the unit file, 6 daemon-reload,
\* 7 registry.add (_save).  Between 6 and 7 the firewall port is opened;
\* an exception that leaves that step ends the try block as a raise does.
CreateFaults == 0..7
\* if self.ufw.is_enabled(): self.ufw.allow_port(port, name)
ufw_open(w, port) ==
    LET enabled == is_enabled(w)
    IN  IF enabled.raised \/ ~enabled.value THEN enabled
        ELSE allow_port(w, port)
create_try(w, name, port, fault) ==
    LET w1 == IF Done(fault, 1) THEN mkdir_state(w, name, Done(fault, 2)) ELSE w
        w2 == IF Done(fault, 4)
              THEN [w1 EXCEPT !.config = Put(@, name, port)]
              ELSE w1
        w3 == IF Done(fault, 5)
              THEN [w2 EXCEPT !.service = @ \cup {name}]
              ELSE w2
        opened == IF Done(fault, 6) THEN ufw_open(w3, port) ELSE UfwRet(w3, FALSE, FALSE)
        programs == (IF Done(fault, 5) THEN {"systemctl"} ELSE {})
                      \cup (IF Done(fault, 6) THEN {"ufw"} ELSE {})
    IN  IF fault = 0 /\ ~opened.raised
        THEN Calls(RetPort([opened.w EXCEPT
                              !.registry = RegistryAdd(@, name, Instance(name, port))],
                           "ok", port), programs)
        ELSE Calls(RetPort(cleanup_partial(opened.w, name), "error", port), programs)

\* OpenClawManager.create_instance
create_instance(w, name, port_arg, live, fault) ==
    IF ~NameMatches(name) THEN Ret(w, "InvalidName")
    ELSE IF name = MAIN_PROFILE THEN Ret(w, "InvalidName")
    ELSE IF RegistryGet(w.registry, name) THEN Ret(w, "AlreadyExists")
    ELSE IF port_arg # NoPort /\ port_in_use(w.registry, port_arg[1])
    THEN Ret(w, "PortInUse")
    ELSE create_try(w, name,
                    IF port_arg = NoPort THEN next_port(w.registry, live) ELSE port_arg[1],
                    fault)

\* ------------------------------------------------------------ delete
\* SystemdManager.stop: ok is the outcome of systemctl stop.
SystemdStop(w, name, ok) == IF ok THEN [w EXCEPT !.running = @ \ {name}] ELSE w
\* SystemdManager.delete_service: ok is the outcome of the unlink.
delete_service(w, name, ok) ==
    IF name \in w.service /\ ok THEN [w EXCEPT !.service = @ \ {name}] ELSE w

\* The steps of delete_instance's try block that can raise: 1 rmtree of the
\* state tree, 2 unlink of the config file, 3 registry.remove (_save).  The
\* supervisor calls before them catch their own exceptions; an exception
\* that leaves the firewall call ends the try block before the removals.
DeleteFaults == 0..3
\* A removal raises only when the file it removes is there.
DeleteFaultApplies(w, name, fault) ==
    /\ fault = 1 => name \in DOMAIN w.state_dir
    /\ fault = 2 => name \in DOMAIN w.config
\* The try block of delete_instance; the variant before it does not unlink
\* the config file.
delete_try_keeps_config(w, name, stopOk, unlinkOk, fault) ==
    LET w0 == delete_service(SystemdStop(w, name, stopOk), name, unlinkOk)
        closed == delete_port(w0, w.registry[name].port)
        w1 == closed.w
        w2 == IF Done(fault, 1) THEN rmtree(w1, name) ELSE w1
    IN  IF fault = 0 /\ ~closed.raised
        THEN Calls(Ret([w2 EXCEPT !.registry = RegistryRemove(@, name)], "ok"),
                   {"systemctl", "ufw"})
        ELSE Calls(Ret(IF closed.raised THEN w1 ELSE w2, "error"), {"systemctl", "ufw"})
delete_try(w, name, stopOk, unlinkOk, fault) ==
    LET w0 == delete_service(SystemdStop(w, name, stopOk), name, unlinkOk)
        closed == delete_port(w0, w.registry[name].port)
        w1 == closed.w
        w2 == IF Done(fault, 1) THEN rmtree(w1, name) ELSE w1
        w3 == IF Done(fault, 2) THEN [w2 EXCEPT !.config = Drop(@, name)] ELSE w2
    IN  IF fault = 0 /\ ~closed.raised
        THEN Calls(Ret([w3 EXCEPT !.registry = RegistryRemove(@, name)], "ok"),
                   {"systemctl", "ufw"})
        ELSE Calls(Ret(IF closed.raised THEN w1 ELSE w3, "error"), {"systemctl", "ufw"})

\* OpenClawManager.delete_instance; confirm: the prompt was answered "y".
\* The variant before it does not prompt.
delete_instance_unprompted(w, name, force, confirm, stopOk, unlinkOk, fault) ==
    IF ~RegistryGet(w.registry, name) THEN Ret(w, "NotFound")
    ELSE IF name = MAIN_PROFILE THEN Ret(w, "Protected")
    ELSE delete_try(w, name, stopOk, unlinkOk, fault)
delete_instance(w, name, force, confirm, stopOk, unlinkOk, fault) ==
    IF ~RegistryGet(w.registry, name) THEN Ret(w, "NotFound")
    ELSE IF name = MAIN_PROFILE THEN Ret(w, "Protected")
    ELSE IF ~force /\ ~confirm THEN Ret(w, "Cancelled")
    ELSE delete_try(w, name, stopOk, unlinkOk, fault)

\* What input() gives at a prompt: the line typed, or the exception it
\* raises at the end of the input or on an interrupt.
Interrupts == {"EOFError", "KeyboardInterrupt"}
DeleteAnswers == {"y", "n"} \cup Interrupts
\* The delete command as main runs it.  The prompt is reached exactly when
\* a declining answer would end the delete as Cancelled; input() stands
\* outside the try block, so its exception leaves delete_instance.
delete_command(w, name, force, typed, stopOk, unlinkOk, fault) ==
    IF /\ typed \in Interrupts
       /\ delete_instance(w, name, force, FALSE, stopOk, unlinkOk, fault).res = "Cancelled"
    THEN Ret(w, typed)
    ELSE delete_instance(w, name, force, typed = "y", stopOk, unlinkOk, fault)

\* OpenClawManager.use_interactive up to the shell it enters: the listing
\* asks the supervisor for the status of every instance, then the prompt;
\* its exceptions are caught and taken as a cancel, as are "0" and "".
SelectAnswers == {"0", "1"} \cup Interrupts
use_interactive(w, typed) ==
    IF DOMAIN w.registry = {} THEN Ret(w, "NoInstances")
    ELSE IF typed \in Interrupts THEN Calls(Ret(w, "Cancelled"), {"systemctl"})
    ELSE IF typed \in {"0", ""} THEN Calls(Ret(w, "Cancelled"), {"systemctl"})
    ELSE Calls(Ret(w, "shell"), {"systemctl"})

\* ------------------------------------------------------------ edit
\* OpenClawManager.edit_instance with the key "gateway.port": value is the
\* number the raw value parses to.  Reading a config file that is not there
\* raises.  An active unit is restarted, the outcome ignored and the registry
\* left alone; down: the restart failed and left the unit stopped.
\* What "systemctl --user is-active" prints, and "unknown", which get_status
\* returns when the call itself raises.
Statuses == {"active", "inactive", "activating", "failed", "unknown"}
\* SystemdManager.get_status of a unit the supervisor answers for.
get_status(w, name) == IF name \in w.running THEN "active" ELSE "inactive"
\* systemctl --user restart: a unit that restarts runs afterwards, whether
\* or not it ran before; down: the failed restart left the unit stopped.
SystemdRestart(w, name, ok, down) ==
    IF ok THEN [w EXCEPT !.running = @ \cup {name}] ELSE SystemdStop(w, name, down)
\* edit_instance from the write of the config file on; status: what
\* get_status returned.  The variant before it restarts whatever the status.
edit_try_restarts_always(w, name, status, value, down) ==
    LET written == [w EXCEPT !.config[name] = value]
    IN  Calls(Ret(SystemdRestart(written, name, ~down, down), "ok"),
                   {"systemctl", "systemctl restart"})
edit_try(w, name, status, value, down) ==
    LET written == [w EXCEPT !.config[name] = value]
    IN  IF status = "active"
        THEN Calls(Ret(SystemdRestart(written, name, ~down, down), "ok"),
                   {"systemctl", "systemctl restart"})
        ELSE Calls(Ret(written, "ok"), {"systemctl"})
edit_instance(w, name, value, down) ==
    IF ~RegistryGet(w.registry, name) THEN Ret(w, "NotFound")
    ELSE IF name \notin DOMAIN w.config THEN Ret(w, "error")
    ELSE edit_try(w, name, get_status(w, name), value, down)

\* ------------------------------------------------------------ supervisor
\* start_instance, stop_instance, restart_instance: ok is the outcome of the
\* systemctl call; the record is persisted only when it succeeded.  The
\* variant before start_instance runs systemctl before it looks the name up.
start_instance_unchecked(w, name, ok) ==
    IF ~RegistryGet(w.registry, name) THEN Calls(Ret(w, "NotFound"), {"systemctl"})
    ELSE IF ok
    THEN Calls(Ret([w EXCEPT !.running = @ \cup {name},
                             !.registry[name].status = "running"], "ok"),
               {"systemctl"})
    ELSE Calls(Ret(w, "error"), {"systemctl"})
start_instance(w, name, ok) ==
    IF ~RegistryGet(w.registry, name) THEN Ret(w, "NotFound")
    ELSE IF ok
    THEN Calls(Ret([w EXCEPT !.running = @ \cup {name},
                             !.registry[name].status = "running"], "ok"),
               {"systemctl"})
    ELSE Calls(Ret(w, "error"), {"systemctl"})
\* The variant before stop_instance does not persist the record.
stop_instance_unsaved(w, name, ok) ==
    IF ~RegistryGet(w.registry, name) THEN Ret(w, "NotFound")
    ELSE IF ok
    THEN Calls(Ret(SystemdStop(w, name, TRUE), "ok"), {"systemctl"})
    ELSE Calls(Ret(w, "error"), {"systemctl"})
stop_instance(w, name, ok) ==
    IF ~RegistryGet(w.registry, name) THEN Ret(w, "NotFound")
    ELSE IF ok
    THEN Calls(Ret([SystemdStop(w, name, TRUE)
                      EXCEPT !.registry[name].status = "stopped"], "ok"),
               {"systemctl"})
    ELSE Calls(Ret(w, "error"), {"systemctl"})
\* down: a failed systemctl restart left the unit stopped.
restart_instance(w, name, ok, down) ==
    IF ~RegistryGet(w.registry, name) THEN Ret(w, "NotFound")
    ELSE IF ok
    THEN Calls(Ret([w EXCEPT !.running = @ \cup {name},
                             !.registry[name].status = "running"], "ok"),
               {"systemctl"})
    ELSE Calls(Ret(SystemdStop(w, name, down), "error"), {"systemctl"})
\* enable_autostart, disable_autostart: on is the value asked for.  The
\* variant before it persists the value asked for whatever systemctl says.
set_autostart_always(w, name, on, ok) ==
    IF ~RegistryGet(w.registry, name) THEN Ret(w, "NotFound")
    ELSE Calls(Ret([w EXCEPT !.registry[name].autostart = on],
                   IF ok THEN "ok" ELSE "error"), {"systemctl"})
set_autostart(w, name, on, ok) ==
    IF ~RegistryGet(w.registry, name) THEN Ret(w, "NotFound")
    ELSE IF ok
    THEN Calls(Ret([w EXCEPT !.registry[name].autostart = on], "ok"), {"systemctl"})
    ELSE Calls(Ret(w, "error"), {"systemctl"})

\* ------------------------------------------------------------ backup
\* The entries backup_instance writes: metadata.json (name, port); tree:
\* members under state/, which a tree with content has; cfg: config.json.
backup_instance(w, name) ==
    IF ~RegistryGet(w.registry, name) THEN Ret(w, "NotFound")
    ELSE Ret([w EXCEPT !.archive =
                 <<[name |-> name,
                    port |-> w.registry[name].port,
                    tree |-> name \in DOMAIN w.state_dir /\ w.state_dir[name],
                    cfg |-> name \in DOMAIN w.config]>>],
             "ok")

\* ------------------------------------------------------------ restore
\* The registry object in memory after the delete_instance that restore
\* calls: registry.remove deletes the entry before _save raises.
AfterDelete(w, d, name, fault) ==
    IF d.res = "error" /\ fault = 3 THEN RegistryRemove(w.registry, name) ELSE d.w.registry

\* Whether restore finds temp_restore_<name>/state after extraction: the
\* archive has members under state/, or an earlier restore left it there.
Staged(w, name, ar) == (name \in DOMAIN w.temp /\ w.temp[name]) \/ ar.tree

\* The steps of restore_instance's try block that can raise: 1 mkdir of the
\* state directory, 2 mkdir of the staging directory, 3 the extraction and
\* the copy into the state tree, 4 the write of the config file,
\* 5 registry.add (_save).  Nothing is rolled back.
RestoreFaults == 0..5
RestoreFaultApplies(w, name, ar, fault) ==
    /\ fault = 3 => Staged(w, name, ar)
    /\ fault = 4 => ar.cfg
restore_try(w, disk, name, ar, port, svcOk, fault) ==
    LET staged == Staged(w, name, ar)
        w1 == IF Done(fault, 1) THEN mkdir_state(w, name, FALSE) ELSE w
        w2 == IF Done(fault, 2) THEN [w1 EXCEPT !.temp = Put(@, name, staged)] ELSE w1
        w3 == IF Done(fault, 3) /\ staged
              THEN [w2 EXCEPT !.state_dir = Put(@, name, TRUE),
                              !.temp = Drop(@, name)]
              ELSE w2
        w4 == IF Done(fault, 4) /\ ar.cfg
              THEN [w3 EXCEPT !.config = Put(@, name, port)]
              ELSE w3
        w5 == IF Done(fault, 4) /\ svcOk
              THEN [w4 EXCEPT !.service = @ \cup {name}]
              ELSE w4
        programs == IF Done(fault, 4) /\ svcOk THEN {"systemctl"} ELSE {}
    IN  IF fault = 0
        THEN Calls(RetPort([w5 EXCEPT
                              !.registry = RegistryAdd(@, name, Instance(name, port))],
                           "ok", port), programs)
        ELSE Calls(RetPort([w5 EXCEPT !.registry = disk], "error", port), programs)

\* OpenClawManager.restore_instance; file: the archive at the path given,
\* <<>> when there is none; the arguments from stopOk to dfault are the
\* inputs of the delete_instance it calls under force.
restore_instance(w, file, name_arg, force, live, stopOk, unlinkOk, dfault, svcOk, fault) ==
    IF file = NoArchive THEN Ret(w, "ArchiveNotFound")
    ELSE
    LET ar == file[1]
        restore_name == IF name_arg # NoName THEN name_arg ELSE ar.name
    IN  IF RegistryGet(w.registry, restore_name) /\ ~force THEN Ret(w, "AlreadyExists")
        ELSE
        LET d == IF force /\ RegistryGet(w.registry, restore_name)
                 THEN delete_instance(w, restore_name, TRUE, FALSE, stopOk, unlinkOk, dfault)
                 ELSE Ret(w, "none")
            mem == AfterDelete(w, d, restore_name, dfault)
        IN  Calls(restore_try([d.w EXCEPT !.registry = mem], d.w.registry,
                              restore_name, ar, next_port(mem, live), svcOk, fault),
                  d.calls)

\* ------------------------------------------------------------ registry file
\* registry.json as json.dump writes it, one chunk after the other: a chunk
\* opens the document, holds one entry of "instances", holds "port_counter"
\* or closes the document.  A hole is what a write beyond the end of a file
\* leaves before it.
Chunk(kind, name, inst, n) ==
    [kind |-> kind, name |-> name, inst |-> inst, n |-> n]
OpenChunk == Chunk("open", NoName, Instance(NoName, 0), 0)
EntryChunk(name, inst) == Chunk("entry", name, inst, 0)
CounterChunk(n) == Chunk("counter", NoName, Instance(NoName, 0), n)
CloseChunk == Chunk("close", NoName, Instance(NoName, 0), 0)
HoleChunk == Chunk("hole", NoName, Instance(NoName, 0), 0)

\* Registry._data, and what _load returns when there is no file.
Data(reg, n) == [instances |-> reg, port_counter |-> n]
NoData == Data(Empty, 0)

NoFile == [exists |-> FALSE, chunks |-> <<>>]
File(chunks) == [exists |-> TRUE, chunks |-> chunks]

\* json.dump(self._data, f, indent=2): the chunks it writes, in order.
RECURSIVE Entries(_, _)
Entries(reg, names) ==
    IF names = {} THEN <<>>
    ELSE LET n == CHOOSE x \in names : TRUE
         IN  <<EntryChunk(n, reg[n])>> \o Entries(reg, names \ {n})
dump(data) ==
    <<OpenChunk>> \o Entries(data.instances, DOMAIN data.instances)
      \o <<CounterChunk(data.port_counter), CloseChunk>>

\* json.load: the text is one whole document, and nothing else; of two
\* entries with one name the later one counts.
Parses(chunks) ==
    /\ Len(chunks) >= 3
    /\ chunks[1].kind = "open"
    /\ chunks[Len(chunks)].kind = "close"
    /\ chunks[Len(chunks) - 1].kind = "counter"
    /\ \A i \in 2..(Len(chunks) - 2) : chunks[i].kind = "entry"
loads(chunks) ==
    LET at == 2..(Len(chunks) - 2)
        LastOf(name) ==
          CHOOSE i \in at :
            /\ chunks[i].name = name
            /\ \A j \in at : chunks[j].name = name => j <= i
    IN  Data([name \in {chunks[i].name : i \in at} |-> chunks[LastOf(name)].inst],
             chunks[Len(chunks) - 1].n)

\* Registry._load: raised when json.load raises.
load(file) ==
    IF ~file.exists THEN [raised |-> FALSE, data |-> NoData]
    ELSE IF Parses(file.chunks)
    THEN [raised |-> FALSE, data |-> loads(file.chunks)]
    ELSE [raised |-> TRUE, data |-> NoData]

\* open(REGISTRY_FILE, "w"): the file is there and empty.
open_w(file) == File(<<>>)

\* f.write of one chunk at the offset pos of this writer's own descriptor.
write(file, pos, chunk) ==
    IF pos <= Len(file.chunks)
    THEN File([file.chunks EXCEPT ![pos] = chunk])
    ELSE File(file.chunks \o [i \in 1..(pos - Len(file.chunks) - 1) |-> HoleChunk]
                \o <<chunk>>)

\* The invocations that may run at the same time, and the name each one
\* creates.
Invocations == {"first", "second"}
OwnName(p) == IF p = "first" THEN <<"w", "2">> ELSE <<"w", "3">>
RegistryOps == {"create", "start"}

\* An invocation: where it is, the operation, _data as __init__ loaded it,
\* _data now, and the number of chunks its _save has written.
Invocation(pc, op, loaded, data, written) ==
    [pc |-> pc, op |-> op, loaded |-> loaded, data |-> data, written |-> written]
Idle == Invocation("idle", "none", NoData, NoData, 0)
NoInvocations == [p \in Invocations |-> Idle]

\* What the operation does to _data before it saves: create ends in
\* registry.add of the new record, start in registry.update of the record of
\* w1 with its new status.
Mutate(p, op, data) ==
    IF op = "create"
    THEN [data EXCEPT !.instances =
            RegistryAdd(@, OwnName(p), Instance(OwnName(p), next_port(@, {})))]
    ELSE [data EXCEPT !.instances[Worker].status = "running"]

\* ------------------------------------------------------------ actions
\* The record of an invocation.  busy: the unit was active when a delete
\* began; built: a create had made the state directory when a step raised.
Last(op, name, res, busy, built) ==
    [op |-> op, name |-> name, res |-> res, busy |-> busy, built |-> built]

Commit(w) ==
    /\ ops < MaxOps
    /\ ops' = ops + 1
    /\ registry' = w.registry
    /\ port_counter' = w.port_counter
    /\ state_dir' = w.state_dir
    /\ stale' = w.stale
    /\ config' = w.config
    /\ service' = w.service
    /\ running' = w.running
    /\ temp' = w.temp
    /\ archive' = w.archive
    /\ ufw' = w.ufw
    /\ UNCHANGED <<main_config, composed, restored, registry_file, invocations,
                   edited>>

\* A host on which the tool has not run: the registry file does not exist.
FreshHost ==
    [registry |-> Empty, port_counter |-> 0, state_dir |-> Empty,
     stale |-> {}, config |-> Empty, service |-> {}, running |-> {}, temp |-> Empty,
     archive |-> NoArchive, ufw |-> NoFirewall]

\* The same host after "create w1" has succeeded.
WorkerHost == create_instance(FreshHost, Worker, NoPort, {}, 0).w

\* No document has been composed or restored yet.
NotComposed ==
    [kind |-> "none", doc |-> NoDoc, name |-> NoName, port |-> 0, res |-> "none"]
NotRestored == [kind |-> "none", doc |-> NoDoc, name |-> NoName, port |-> 0]
NotEdited == [kind |-> "none", doc |-> NoDoc, key |-> <<>>, raw |-> <<>>]

\* A behaviour starts on the fresh host or on the host that runs w1; there
\* is no reference configuration.
Init ==
    /\ main_config = MainFile("absent", NoDoc)
    /\ composed = NotComposed
    /\ restored = NotRestored
    /\ registry_file = NoFile
    /\ invocations = NoInvocations
    /\ edited = NotEdited
    /\ \E w \in {FreshHost, WorkerHost} :
         /\ registry = w.registry
         /\ port_counter = w.port_counter
         /\ state_dir = w.state_dir
         /\ stale = w.stale
         /\ config = w.config
         /\ service = w.service
         /\ running = w.running
         /\ temp = w.temp
         /\ archive = w.archive
         /\ ufw = w.ufw
         /\ issued = UsedPorts(w.registry)
    /\ last = Last("init", NoName, "ok", FALSE, FALSE)
    /\ ops = 0

More == ops < MaxOps

\* create <name>: the port comes from next_port.
Create ==
    /\ More
    /\ \E name \in Names, live \in LiveSets, fault \in CreateFaults :
      \E r \in {create_instance(World, name, NoPort, live, fault)} :
        /\ r.res \notin {"ok", "error"} => fault = 0
        /\ r.res # "ok" => live = {}
        /\ \A p \in live : p < r.port
        /\ Commit(r.w)
        /\ issued' = IF r.res = "ok" THEN issued \cup {r.port} ELSE issued
        /\ last' = Last("create", name, r.res, FALSE, r.res = "error" /\ fault >= 2)

\* create <name> --port <port>
CreatePort ==
    /\ More
    /\ \E name \in Names, port \in ExplicitPorts, fault \in CreateFaults :
      \E r \in {create_instance(World, name, <<port>>, {}, fault)} :
        /\ r.res \notin {"ok", "error"} => fault = 0
        /\ Commit(r.w)
        /\ UNCHANGED issued
        /\ last' = Last("create_port", name, r.res, FALSE, r.res = "error" /\ fault >= 2)

Delete ==
    /\ More
    /\ \E name \in Names, force \in BOOLEAN, typed \in DeleteAnswers,
       stopOk \in BOOLEAN, unlinkOk \in BOOLEAN, fault \in DeleteFaults :
      /\ force => typed = "n"
      /\ ~stopOk => name \in running
      /\ ~unlinkOk => name \in service
      /\ DeleteFaultApplies(World, name, fault)
      /\ \E r \in {delete_command(World, name, force, typed, stopOk, unlinkOk, fault)} :
           /\ r.res \notin {"ok", "error"} => (stopOk /\ unlinkOk /\ fault = 0)
           /\ r.res \in {"NotFound", "Protected"} => typed = "n"
           /\ Commit(r.w)
           /\ UNCHANGED issued
           /\ last' = Last("delete", name, r.res, name \in running, FALSE)

\* The invocations that take a name and the outcome of one supervisor call.
Simple(op, r) ==
    /\ Commit(r.w)
    /\ UNCHANGED issued
    /\ last' = Last(op, NoName, r.res, FALSE, FALSE)

Edit ==
    /\ More
    /\ \E name \in Names, value \in EditPorts, down \in BOOLEAN :
      /\ down => name \in running
      /\ Simple("edit", edit_instance(World, name, value, down))

\* systemctl starts a unit only if its unit file is there.
Start ==
    /\ More
    /\ \E name \in Names, ok \in BOOLEAN :
      /\ ok => name \in service
      /\ Simple("start", start_instance(World, name, ok))

Stop ==
    /\ More
    /\ \E name \in Names, ok \in BOOLEAN :
      Simple("stop", stop_instance(World, name, ok))

Restart ==
    /\ More
    /\ \E name \in Names, ok \in BOOLEAN, down \in BOOLEAN :
      /\ ok => (~down /\ name \in service)
      /\ Simple("restart", restart_instance(World, name, ok, down))

Enable ==
    /\ More
    /\ \E name \in Names, ok \in BOOLEAN :
      Simple("enable", set_autostart(World, name, TRUE, ok))

Disable ==
    /\ More
    /\ \E name \in Names, ok \in BOOLEAN :
      Simple("disable", set_autostart(World, name, FALSE, ok))

\* enter: the interactive selection.
Enter ==
    /\ More
    /\ \E typed \in SelectAnswers :
      /\ registry = Empty => typed = "0"
      /\ Simple("enter", use_interactive(World, typed))

Backup ==
    /\ More
    /\ \E name \in Names :
      Simple("backup", backup_instance(World, name))

\* restore <archive> [--name <name>] [--force]; the archive is the one the
\* last backup wrote or the one the caller holds.  Inputs that the run does
\* not read are held at one value, and so are outcomes that change nothing:
\* a stop of a unit that is not running, an unlink of a unit file that is
\* not there, a listener on a port the scan of next_port never reaches.
\* A --name that repeats the archive's own name is the run without --name.
Restore ==
    /\ More
    /\ \E file \in {archive, <<OldArchive>>}, name_arg \in RestoreNames \cup {NoName},
          force \in BOOLEAN :
         IF file = NoArchive
         THEN /\ name_arg = NoName /\ ~force
              /\ Commit(World)
              /\ UNCHANGED issued
              /\ last' = Last("restore", NoName, "ArchiveNotFound", FALSE, FALSE)
         ELSE
         LET restore_name == IF name_arg # NoName THEN name_arg ELSE file[1].name
             exists == RegistryGet(registry, restore_name)
             deletes == force /\ exists /\ restore_name # MAIN_PROFILE
             early == exists /\ ~force
         IN  /\ force => exists
             /\ name_arg # file[1].name
             /\ \E fault \in (IF early THEN {0} ELSE RestoreFaults) :
                  \E live \in (IF early \/ fault \in 1..4 THEN {{}} ELSE LiveSets),
                     stopOk \in (IF deletes THEN BOOLEAN ELSE {TRUE}),
                     unlinkOk \in (IF deletes THEN BOOLEAN ELSE {TRUE}),
                     dfault \in (IF deletes THEN DeleteFaults ELSE {0}),
                     svcOk \in (IF early \/ fault \in 1..4 THEN {TRUE} ELSE BOOLEAN) :
                    /\ ~stopOk => restore_name \in running
                    /\ ~unlinkOk => restore_name \in service
                    /\ DeleteFaultApplies(World, restore_name, dfault)
                    /\ RestoreFaultApplies(World, restore_name, file[1], fault)
                    /\ \E r \in {restore_instance(World, file, name_arg, force, live,
                                                  stopOk, unlinkOk, dfault, svcOk, fault)} :
                         /\ \A p \in live : p < r.port
                         /\ Commit(r.w)
                         /\ UNCHANGED issued
                         /\ last' = Last("restore", restore_name, r.res, FALSE, FALSE)

Next ==
    \/ Create
    \/ CreatePort
    \/ Delete
    \/ Edit
    \/ Start
    \/ Stop
    \/ Restart
    \/ Enable
    \/ Disable
    \/ Backup
    \/ Enter
    \/ Restore

Spec == Init /\ [][Next]_vars

\* ------------------------------------------------------------ configuration
\* The reference configurations: what the operator's own instance keeps
\* (its gateway settings), and one choice each of its agents, providers and
\* models sections.
OwnPart ==
    Plus(Leaf(<<"gateway", "port">>, BASE_PORT),
         Leaf(<<"gateway", "tailscale", "mode">>, "serve"))
AgentsParts ==
    {NoDoc,
     EmptyDict(AgentsDefaults),
     Leaf(AgentsDefaults \o <<"model", "primary">>, "main-model"),
     Leaf(AgentsDefaults \o <<"workspace">>, Workspace(MAIN_PROFILE))}
ProviderParts ==
    {NoDoc,
     Plus(Leaf(<<"providers", "openai", "baseURL">>, "https://api.example"),
          Leaf(<<"providers", "openai", "apiKey">>, "sk-secret")),
     Plus(Leaf(<<"providers", "Tailscale-gw", "baseURL">>, "https://ts.example"),
          Leaf(<<"providers", "openai", "organization">>, "org-1")),
     Leaf(<<"providers", "openai", "models", "tailscale", "host">>, "ts-host")}
ModelsParts ==
    {NoDoc,
     Leaf(<<"models", "mode">>, "merge"),
     Leaf(<<"models", "providers", "tailscale", "host">>, "ts-host")}
MainDocs ==
    {Plus(Plus(Plus(OwnPart, a), p), m) :
       a \in AgentsParts, p \in ProviderParts, m \in ModelsParts}
MainFiles ==
    {MainFile("absent", NoDoc), MainFile("unparseable", NoDoc)}
      \cup {MainFile("json", d) : d \in MainDocs}

ComposeNames == {Worker, NewlineName}
ComposePorts == {BASE_PORT, SlotPort(1)}
ComposeModels == {NoModel, <<"other-model">>}
Tokens == {"c0ffee"}
Times == {"2026-02-15T00:00:00Z"}

InitConfig ==
    /\ main_config \in MainFiles
    /\ composed = NotComposed
    /\ restored = NotRestored
    /\ registry_file = NoFile
    /\ invocations = NoInvocations
    /\ edited = NotEdited
    /\ registry = FreshHost.registry
    /\ port_counter = FreshHost.port_counter
    /\ state_dir = FreshHost.state_dir
    /\ stale = FreshHost.stale
    /\ config = FreshHost.config
    /\ service = FreshHost.service
    /\ running = FreshHost.running
    /\ temp = FreshHost.temp
    /\ archive = FreshHost.archive
    /\ ufw = FreshHost.ufw
    /\ issued = {}
    /\ last = Last("init", NoName, "ok", FALSE, FALSE)
    /\ ops = 0

\* create <name> --port <port> [--model <model>] on the fresh host: the
\* document composed, and how the create ends when composing is the only
\* step that can raise.  A behaviour composes once, and then either
\* restores the document under another name or edits it.
Compose ==
    /\ composed = NotComposed
    /\ \E name \in ComposeNames, port \in ComposePorts, model \in ComposeModels,
          token \in Tokens, now \in Times :
      \E made \in {instance_config(main_config, name, port, model, token, now)} :
        /\ composed' =
             [kind |-> IF made.raised THEN "raised" ELSE "doc",
              doc |-> made.doc, name |-> name, port |-> port,
              res |-> create_instance(World, name, <<port>>, {},
                                      IF made.raised THEN 3 ELSE 0).res]
        /\ restored' = NotRestored
        /\ UNCHANGED <<registry, port_counter, state_dir, stale, config, service,
                       running, temp, archive, issued, last, ops, main_config,
                       registry_file, invocations, ufw>>
        /\ edited' = NotEdited

\* backup of the instance composed for, then restore --name <other name>:
\* the archive carries the config file as it is, restore rewrites it.
RestoreConfig ==
    /\ composed.kind = "doc"
    /\ edited = NotEdited
    /\ \E name \in ComposeNames \ {composed.name}, port \in ComposePorts :
         \E made \in {restore_config(composed.doc, port)} :
           /\ restored' =
                [kind |-> IF made.raised THEN "raised" ELSE "doc",
                 doc |-> made.doc, name |-> name, port |-> port]
           /\ UNCHANGED <<registry, port_counter, state_dir, stale, config,
                          service, running, temp, archive, issued, last, ops,
                          main_config, composed, registry_file, invocations, ufw,
                          edited>>

\* edit <name> <key> <value> on the instance composed for.
EditKeys ==
    {<<"gateway", ".", "port">>,
     <<"agents", ".", "defaults", ".", "maxConcurrent">>,
     <<"a", ".", "b", ".", "c">>,
     <<"gateway", ".", "port", ".", "x">>,
     <<"meta">>}
RawValues ==
    {<<"5">>, <<"8", "0">>, <<"0", "5">>, <<"h", "e", "l", "l", "o">>,
     <<"t", "r", "u", "e">>, <<"\"", "5", "\"">>, <<"{", "}">>}
EditConfig ==
    /\ composed.kind = "doc"
    /\ edited = NotEdited
    /\ restored = NotRestored
    /\ \E key \in EditKeys, raw \in RawValues :
         \E made \in {edit_config(composed.doc, key, raw)} :
           /\ edited' =
                [kind |-> IF made.raised THEN "raised" ELSE "doc",
                 doc |-> IF made.raised THEN composed.doc ELSE made.doc,
                 key |-> key, raw |-> raw]
           /\ UNCHANGED <<registry, port_counter, state_dir, stale, config,
                          service, running, temp, archive, issued, last, ops,
                          main_config, composed, restored, registry_file,
                          invocations, ufw>>

NextConfig ==
    \/ Compose
    \/ RestoreConfig
    \/ EditConfig

SpecConfig == InitConfig /\ [][NextConfig]_vars

\* ------------------------------------------------------------ persistence
\* The registry file under invocations that overlap in time and may be
\* interrupted; the host has no registry file yet, or runs w1.
InitRegistry ==
    /\ registry_file \in
         {NoFile, File(dump(Data(WorkerHost.registry, WorkerHost.port_counter)))}
    /\ invocations = NoInvocations
    /\ main_config = MainFile("absent", NoDoc)
    /\ composed = NotComposed
    /\ restored = NotRestored
    /\ edited = NotEdited
    /\ registry = FreshHost.registry
    /\ port_counter = FreshHost.port_counter
    /\ state_dir = FreshHost.state_dir
    /\ stale = FreshHost.stale
    /\ config = FreshHost.config
    /\ service = FreshHost.service
    /\ running = FreshHost.running
    /\ temp = FreshHost.temp
    /\ archive = FreshHost.archive
    /\ ufw = FreshHost.ufw
    /\ issued = {}
    /\ last = Last("init", NoName, "ok", FALSE, FALSE)
    /\ ops = 0

Host ==
    UNCHANGED <<registry, port_counter, state_dir, stale, config, service,
                running, temp, archive, issued, last, ops, main_config,
                composed, restored, ufw, edited>>

\* OpenClawManager.__init__: Registry() loads the file; a file that does not
\* parse ends the invocation with the exception.
Begin(p) ==
    /\ invocations[p].pc = "idle"
    /\ \E op \in RegistryOps :
         \E l \in {load(registry_file)} :
           invocations' =
             [invocations EXCEPT ![p] =
                IF l.raised THEN Invocation("crashed", op, NoData, NoData, 0)
                ELSE Invocation("loaded", op, l.data, l.data, 0)]
    /\ UNCHANGED registry_file
    /\ Host

\* The operation up to the open of _save: start of a name that is not
\* registered returns without saving.
Open(p) ==
    /\ invocations[p].pc = "loaded"
    /\ LET inv == invocations[p]
       IN  IF inv.op = "start" /\ ~RegistryGet(inv.data.instances, Worker)
           THEN /\ invocations' = [invocations EXCEPT ![p].pc = "done"]
                /\ UNCHANGED registry_file
           ELSE /\ invocations' =
                     [invocations EXCEPT ![p].pc = "saving",
                                         ![p].data = Mutate(p, inv.op, inv.data)]
                /\ registry_file' = open_w(registry_file)
    /\ Host

\* json.dump writes its next chunk.
Write(p) ==
    /\ invocations[p].pc = "saving"
    /\ LET inv == invocations[p]
       IN  /\ inv.written < Len(dump(inv.data))
           /\ registry_file' =
                write(registry_file, inv.written + 1, dump(inv.data)[inv.written + 1])
           /\ invocations' = [invocations EXCEPT ![p].written = inv.written + 1]
    /\ Host

\* The with block of _save ends: the save is complete.
Close(p) ==
    /\ invocations[p].pc = "saving"
    /\ invocations[p].written = Len(dump(invocations[p].data))
    /\ invocations' = [invocations EXCEPT ![p].pc = "done"]
    /\ UNCHANGED registry_file
    /\ Host

\* The invocation is interrupted (a signal, a full disk, a power cut) after
\* its load: what it has written so far stays.
Interrupt(p) ==
    /\ invocations[p].pc \in {"loaded", "saving"}
    /\ invocations' = [invocations EXCEPT ![p].pc = "failed"]
    /\ UNCHANGED registry_file
    /\ Host

NextRegistry ==
    \E p \in Invocations :
      \/ Begin(p)
      \/ Open(p)
      \/ Write(p)
      \/ Close(p)
      \/ Interrupt(p)

SpecRegistry == InitRegistry /\ [][NextRegistry]_vars

\* ------------------------------------------------------------ firewall
\* create and delete on a host whose firewall is in any condition: active
\* or not, or not there at all, its commands succeeding, failing or
\* raising.  Every other step of the handlers succeeds.
Firewalls ==
    {Firewall(status, allow, delete, {}) :
       status \in UfwStatus, allow \in UfwOutcome, delete \in UfwOutcome}
InitFirewall ==
    /\ ufw \in Firewalls
    /\ \E w \in {FreshHost, WorkerHost} :
         /\ registry = w.registry
         /\ port_counter = w.port_counter
         /\ state_dir = w.state_dir
         /\ stale = w.stale
         /\ config = w.config
         /\ service = w.service
         /\ running = w.running
         /\ temp = w.temp
         /\ archive = w.archive
         /\ issued = UsedPorts(w.registry)
    /\ main_config = MainFile("absent", NoDoc)
    /\ composed = NotComposed
    /\ restored = NotRestored
    /\ edited = NotEdited
    /\ registry_file = NoFile
    /\ invocations = NoInvocations
    /\ last = Last("init", NoName, "ok", FALSE, FALSE)
    /\ ops = 0

\* create <name> [--port <port>]
CreateUfw ==
    /\ More
    /\ \E name \in Names, port_arg \in {NoPort} \cup {<<p>> : p \in ExplicitPorts} :
         \E r \in {create_instance(World, name, port_arg, {}, 0)} :
           /\ Commit(r.w)
           /\ issued' = IF r.res = "ok" THEN issued \cup {r.port} ELSE issued
           /\ last' = Last("create", name, r.res, FALSE, FALSE)

\* delete <name> --force
DeleteUfw ==
    /\ More
    /\ \E name \in Names :
         \E r \in {delete_command(World, name, TRUE, "n", TRUE, TRUE, 0)} :
           /\ Commit(r.w)
           /\ UNCHANGED issued
           /\ last' = Last("delete", name, r.res, name \in running, FALSE)

NextFirewall ==
    \/ CreateUfw
    \/ DeleteUfw

SpecFirewall == InitFirewall /\ [][NextFirewall]_vars

\* ------------------------------------------------------------ directories
\* REGISTRY_DIR, ~/.openclaw-manager, which holds registry.json: as
\* Instance.state_dir builds ~/.openclaw-<name>, the prefix and then the
\* letters that follow it.
ManagerName == <<"m", "a", "n", "a", "g", "e", "r">>
REGISTRY_DIR == <<".openclaw-", ManagerName>>
\* Names a caller passes to create and delete.
PathNames == {Worker, ManagerName}

\* Whether the directory of the registry file is among the state trees.
RegistryDirThere(w) == \E n \in DOMAIN w.state_dir : StateDir(n) = REGISTRY_DIR
\* Registry._ensure_dirs, run by every invocation: REGISTRY_DIR is there
\* afterwards, with content when it holds the registry file.
ensure_dirs(w, file) ==
    LET sd == w.state_dir
        owners == {n \in PathNames : StateDir(n) = REGISTRY_DIR}
    IN  [w EXCEPT !.state_dir =
           [n \in (DOMAIN sd) \cup owners |->
              IF n \in owners
              THEN file.exists \/ (n \in DOMAIN sd /\ sd[n])
              ELSE sd[n]]]
\* The registry file after a handler: _save has written it when the handler
\* succeeded; it went with its directory when the handler removed that.
FileAfter(before, r, file) ==
    IF r.res = "ok" THEN File(dump(Data(r.w.registry, r.w.port_counter)))
    ELSE IF RegistryDirThere(before) /\ ~RegistryDirThere(r.w) THEN NoFile
    ELSE file
OnDisk(r, file) == [w |-> r.w, res |-> r.res, file |-> file]

\* One invocation of create <name> on the files of the host.
create_on_disk(w, file, name, fault) ==
    LET before == ensure_dirs(w, file)
        r == create_instance(before, name, NoPort, {}, fault)
    IN  OnDisk(r, FileAfter(before, r, file))
\* One invocation of delete <name> --force: registry.remove saves after the
\* removals, and open(REGISTRY_FILE, "w") raises when its directory is gone.
delete_on_disk(w, file, name, stopOk, unlinkOk, fault) ==
    LET before == ensure_dirs(w, file)
        tried == delete_instance(before, name, TRUE, FALSE, stopOk, unlinkOk, fault)
        r == IF tried.res = "ok" /\ RegistryDirThere(before) /\ ~RegistryDirThere(tried.w)
             THEN delete_instance(before, name, TRUE, FALSE, stopOk, unlinkOk, 3)
             ELSE tried
    IN  OnDisk(r, FileAfter(before, r, file))

\* The host after an invocation; the registry is what the next invocation
\* loads from the file.
CommitDisk(d) ==
    /\ ops < MaxOps
    /\ ops' = ops + 1
    /\ registry_file' = d.file
    /\ registry' = load(d.file).data.instances
    /\ port_counter' = load(d.file).data.port_counter
    /\ state_dir' = d.w.state_dir
    /\ stale' = d.w.stale
    /\ config' = d.w.config
    /\ service' = d.w.service
    /\ running' = d.w.running
    /\ temp' = d.w.temp
    /\ archive' = d.w.archive
    /\ ufw' = d.w.ufw
    /\ UNCHANGED <<issued, main_config, composed, restored, invocations, edited>>

InitPaths ==
    /\ \E w \in {FreshHost, WorkerHost} :
         /\ registry = w.registry
         /\ port_counter = w.port_counter
         /\ state_dir = w.state_dir
         /\ stale = w.stale
         /\ config = w.config
         /\ service = w.service
         /\ running = w.running
         /\ temp = w.temp
         /\ archive = w.archive
         /\ ufw = w.ufw
         /\ issued = UsedPorts(w.registry)
         /\ registry_file = IF w.registry = Empty THEN NoFile
                            ELSE File(dump(Data(w.registry, w.port_counter)))
    /\ main_config = MainFile("absent", NoDoc)
    /\ composed = NotComposed
    /\ restored = NotRestored
    /\ edited = NotEdited
    /\ invocations = NoInvocations
    /\ last = Last("init", NoName, "ok", FALSE, FALSE)
    /\ ops = 0

CreateOnDisk ==
    \E name \in PathNames, fault \in CreateFaults :
      \E d \in {create_on_disk(World, registry_file, name, fault)} :
        /\ d.res \notin {"ok", "error"} => fault = 0
        /\ CommitDisk(d)
        /\ last' = Last("create", name, d.res, FALSE, d.res = "error" /\ fault >= 2)

DeleteOnDisk ==
    \E name \in PathNames, stopOk \in BOOLEAN, unlinkOk \in BOOLEAN,
       fault \in DeleteFaults :
      /\ ~stopOk => name \in running
      /\ ~unlinkOk => name \in service
      /\ DeleteFaultApplies(ensure_dirs(World, registry_file), name, fault)
      /\ \E d \in {delete_on_disk(World, registry_file, name, stopOk, unlinkOk, fault)} :
           /\ d.res \notin {"ok", "error"} => fault = 0
           /\ CommitDisk(d)
           /\ last' = Last("delete", name, d.res, name \in running, FALSE)

NextPaths ==
    \/ CreateOnDisk
    \/ DeleteOnDisk

SpecPaths == InitPaths /\ [][NextPaths]_vars

\* ------------------------------------------------------------ claims

Registered == DOMAIN registry
Creates == {"create", "create_port"}
HasTree(name) == name \in DOMAIN state_dir
HasConfig(name) == name \in DOMAIN config
HasDescriptor(name) == name \in service

\* C1: in every reachable state no two entries of the registry have the same
\* port, whichever operations led there.
C1_PortsUnique ==
    \A n \in Registered, m \in Registered :
      n # m => registry[n].port # registry[m].port

\* Two instances are registered, one of them by the last invocation.
C1_Witness ==
    /\ Cardinality(Registered) >= 2
    /\ last.op \in Creates \cup {"restore"}
    /\ last.res = "ok"

\* C2: a create without an explicit port never gets a port that an earlier
\* create without an explicit port got, deletes in between or not.
C2_NeverReissued ==
    [][(last'.op = "create" /\ last'.res = "ok")
         => registry'[last'.name].port \notin issued]_vars

\* C3: port_counter never decreases, and every successful allocation (create
\* without an explicit port, restore) leaves it past the slot it chose.
C3_CounterAdvances ==
    [][/\ port_counter' >= port_counter
       /\ (last'.op \in {"create", "restore"} /\ last'.res = "ok")
            => BASE_PORT + port_counter' * PORT_INCREMENT
                 > registry'[last'.name].port]_vars

\* C4: after every completed operation every registered instance has its
\* state directory, its config file and its service descriptor.
C4_ArtifactsPresent ==
    \A n \in Registered : HasTree(n) /\ HasConfig(n) /\ HasDescriptor(n)

C6_DuplicateCreateRejected ==
    [][(last'.op \in Creates /\ last'.name \in Registered)
         => /\ last'.res = "AlreadyExists"
            /\ UNCHANGED <<registry, port_counter, state_dir, stale, config,
                           service, running, temp, archive>>]_vars

\* C7: every registered name is non-empty, is made of letters, digits, "_"
\* and "-" only, and is not the reserved name.
C7_NamesValid ==
    \A n \in Registered : FullMatch(n) /\ n # MAIN_PROFILE

C10_FailedDeleteKeepsArtifacts ==
    (last.op = "delete" /\ last.res = "error" /\ last.name \in Registered)
      => HasTree(last.name) /\ HasConfig(last.name)

\* C11: a restore that fails after it began to build the instance leaves no
\* state tree, staging directory, config file, descriptor or registry entry
\* that was not there before it, and leaves an instance that was registered
\* under the name registered, with its state tree and its config file.
C11_FailedRestoreRollsBack ==
    [][(last'.op = "restore" /\ last'.res = "error")
         => /\ last'.name \in DOMAIN state_dir' => last'.name \in DOMAIN state_dir
            /\ last'.name \in DOMAIN temp' => last'.name \in DOMAIN temp
            /\ last'.name \in DOMAIN config' => last'.name \in DOMAIN config
            /\ last'.name \in service' => last'.name \in service
            /\ last'.name \in DOMAIN registry' => last'.name \in Registered
            /\ last'.name \in Registered
                 => /\ last'.name \in DOMAIN registry'
                    /\ last'.name \in DOMAIN state_dir => last'.name \in DOMAIN state_dir'
                    /\ last'.name \in DOMAIN config => last'.name \in DOMAIN config']_vars

\* C12: every restore that succeeds gives the instance a port that no other
\* registered instance holds and that is not the port stored in the
\* archive, and writes that port as the gateway port of the restored config.
C12_RestoredPortIsNew ==
    \A file \in {archive, <<OldArchive>>} \ {NoArchive},
       name_arg \in RestoreNames \cup {NoName}, force \in BOOLEAN,
       live \in LiveSets, dfault \in DeleteFaults, svcOk \in BOOLEAN :
      \E r \in {restore_instance(World, file, name_arg, force, live, TRUE, TRUE,
                                 dfault, svcOk, 0)} :
        r.res = "ok" =>
          \E name \in {IF name_arg # NoName THEN name_arg ELSE file[1].name} :
            /\ r.port = r.w.registry[name].port
            /\ \A n \in DOMAIN r.w.registry \ {name} : r.w.registry[n].port # r.port
            /\ r.port # file[1].port
            /\ name \in DOMAIN r.w.config
            /\ r.w.config[name] = r.port

\* C14: a restore to a registered name either fails with AlreadyExists and
\* changes nothing (no force), or (force) goes ahead only once the existing
\* instance is deleted: its service is stopped and no file of its state
\* tree is in the state tree the restore leaves.
C14_RestoreOverExisting ==
    [][(last'.op = "restore" /\ last'.name \in Registered)
         => \/ /\ last'.res = "AlreadyExists"
               /\ UNCHANGED <<registry, port_counter, state_dir, stale, config,
                              service, running, temp, archive>>
            \/ /\ last'.res \in {"ok", "error"}
               /\ last'.name \notin running'
               /\ last'.name \notin stale']_vars

\* C20: whatever the probe reports, the port the allocator returns is
\* BASE_PORT plus a multiple of PORT_INCREMENT, is held by no registry
\* entry and is not one the probe reports as listening, registered or not.
C20_AllocatedPortIsFree ==
    \A live \in LiveSets :
      \E port \in {next_port(registry, live)} :
        /\ \E k \in 0..(Cardinality(Registered) + MaxLive) : port = SlotPort(k)
        /\ port \notin UsedPorts(registry)
        /\ port \notin live

\* A create got the second slot because the probe reported the first one,
\* which no registry entry holds, as listening.
C20_Witness ==
    /\ last.op = "create"
    /\ last.res = "ok"
    /\ last.name \in Registered
    /\ registry[last.name].port = SlotPort(1)
    /\ BASE_PORT \notin UsedPorts(registry)

\* d[path] is the scalar v.
Holds(d, path, v) == path \in DOMAIN d.leaf /\ d.leaf[path] = v
WorkspacePath == AgentsDefaults \o <<"workspace">>
GatewayPortPath == <<"gateway", "port">>

\* C13: the config of an instance restored from a backup under another name
\* is the original's but for the port and the workspace path: the gateway
\* port is the restored instance's, the workspace lies under the restored
\* instance's own state tree, every other value is the original's.
C13_RestoredConfigIsOwn ==
    restored.kind # "none"
      => /\ restored.kind = "doc"
         /\ Paths(restored.doc) = Paths(composed.doc)
         /\ Holds(restored.doc, GatewayPortPath, restored.port)
         /\ WorkspacePath \in DOMAIN composed.doc.leaf
              => /\ WorkspacePath \in DOMAIN restored.doc.leaf
                 /\ IsPrefix(StateDir(restored.name), restored.doc.leaf[WorkspacePath])
         /\ \A p \in DOMAIN composed.doc.leaf \ {GatewayPortPath, WorkspacePath} :
              Holds(restored.doc, p, composed.doc.leaf[p])

\* C15: whatever the reference configuration, the composed document has
\* the given port as gateway port, bind mode loopback, a generated token,
\* the two concurrency limits and the workspace under the instance's own
\* state tree.
C15_OverridesApplied ==
    composed.kind = "doc"
      => /\ Holds(composed.doc, GatewayPortPath, composed.port)
         /\ Holds(composed.doc, <<"gateway", "bind">>, "loopback")
         /\ \E token \in Tokens : Holds(composed.doc, <<"gateway", "auth", "token">>, token)
         /\ Holds(composed.doc, AgentsDefaults \o <<"maxConcurrent">>, 4)
         /\ Holds(composed.doc, AgentsDefaults \o <<"subagents", "maxConcurrent">>, 8)
         /\ Holds(composed.doc, WorkspacePath, Workspace(composed.name))

\* C16: no path of a composed document has a key "apiKey" or a key that
\* contains "tailscale" in any case, at any depth, and a provider entry has
\* connection fields only.
C16_NoSecretsInherited ==
    composed.kind = "doc"
      => \A p \in Paths(composed.doc) :
           /\ \A i \in 1..Len(p) : p[i] # "apiKey" /\ ~NamesTailscale(p[i])
           /\ (Len(p) >= 3 /\ p[1] = "providers")
                => p[3] \in {"baseURL", "baseUrl", "api"}

\* C17: with a reference configuration that is there but is not JSON, the
\* document is composed all the same and the create succeeds.
C17_UnparseableMainTolerated ==
    (composed.kind # "none" /\ main_config.kind = "unparseable")
      => composed.kind = "doc" /\ composed.res = "ok"

\* C18: registry persistence is all-or-nothing.  When an invocation was
\* interrupted, no other invocation having begun, the registry file reads
\* as the complete structure the invocation loaded or as the complete
\* structure it was saving; it is never empty, truncated or unparseable.
C18_SaveAllOrNothing ==
    \A p \in Invocations :
      (/\ invocations[p].pc = "failed"
       /\ \A q \in Invocations \ {p} : invocations[q].pc = "idle")
        => \E d \in {invocations[p].loaded, invocations[p].data} :
             load(registry_file) = [raised |-> FALSE, data |-> d]

\* The change of invocation p is in the registry data: the record it
\* created, or the status "running" of the record it started.
Persisted(p, data) ==
    IF invocations[p].op = "create"
    THEN RegistryGet(data.instances, OwnName(p))
    ELSE RegistryGet(invocations[p].loaded.instances, Worker)
           => /\ RegistryGet(data.instances, Worker)
              /\ data.instances[Worker].status = "running"

\* C19: when two invocations that mutate the registry overlap in time and
\* both run to their end, the persisted registry parses and holds the
\* change of each of them, whatever the interleaving.
C19_NoLostUpdate ==
    (\A p \in Invocations : invocations[p].pc = "done")
      => /\ ~load(registry_file).raised
         /\ \A p \in Invocations : Persisted(p, load(registry_file).data)

C22_RejectedCreateChangesNothing ==
    \A name \in Names, live \in LiveSets, fault \in CreateFaults :
      /\ (~FullMatch(name) \/ name = MAIN_PROFILE)
           => \A port_arg \in {NoPort} \cup {<<p>> : p \in ExplicitPorts \cup UsedPorts(registry)} :
                create_instance(World, name, port_arg, live, fault)
                  = Ret(World, "InvalidName")
      /\ (FullMatch(name) /\ name # MAIN_PROFILE /\ name \notin Registered)
           => \A p \in UsedPorts(registry) :
                create_instance(World, name, <<p>>, live, fault) = Ret(World, "PortInUse")

\* What each raw value of the model stands for: "5" and "80" are numbers,
\* true is a boolean, "5" in double quotes is the string 5, {} is an empty
\* mapping; 05 and hello are not JSON and stand for themselves.
Expected(raw) ==
    CASE raw = <<"5">> -> JsonValue("number", 5, FALSE, <<>>)
      [] raw = <<"8", "0">> -> JsonValue("number", 80, FALSE, <<>>)
      [] raw = <<"t", "r", "u", "e">> -> JsonValue("boolean", 0, TRUE, <<>>)
      [] raw = <<"\"", "5", "\"">> -> JsonValue("string", 0, FALSE, <<"5">>)
      [] raw = <<"{", "}">> -> JsonValue("object", 0, FALSE, <<>>)
      [] OTHER -> JsonValue("string", 0, FALSE, raw)

\* C23: an edit of the composed document with a dotted key and a raw value
\* puts, at the path the key splits into, the value the raw text stands for
\* as JSON or else the text itself, makes the mappings on the way that are
\* missing, and leaves every key that is not at or below that path as it
\* was.  When a key on the way holds a scalar the edit fails and the
\* document stays as it was.
C23_EditSetsOneKey ==
    edited.kind # "none" =>
      LET path == KeyPath(edited.key)
          before == composed.doc
          after == edited.doc
          want == Expected(edited.raw)
      IN  IF \E n \in 1..(Len(path) - 1) : SubSeq(path, 1, n) \in DOMAIN before.leaf
          THEN edited.kind = "raised" /\ after = before
          ELSE /\ edited.kind = "doc"
               /\ IF want.type = "object"
                  THEN path \in after.empty
                  ELSE path \in DOMAIN after.leaf /\ after.leaf[path] = want
               /\ \A n \in 1..(Len(path) - 1) :
                    /\ HasKey(after, SubSeq(path, 1, n))
                    /\ SubSeq(path, 1, n) \notin DOMAIN after.leaf
               /\ \A p \in DOMAIN before.leaf :
                    ~IsPrefix(path, p)
                      => p \in DOMAIN after.leaf /\ after.leaf[p] = before.leaf[p]
               /\ \A p \in before.empty :
                    (~IsPrefix(path, p) /\ ~IsPrefix(p, path)) => p \in after.empty
               /\ \A p \in Paths(after) : p \in Paths(before) \/ IsPrefix(path, p)

\* An edit has set the number 5 at a.b.c, where the document had no key a,
\* next to the keys the document had.
C23_Witness ==
    /\ edited.kind = "doc"
    /\ edited.key = <<"a", ".", "b", ".", "c">>
    /\ edited.raw = <<"5">>
    /\ Holds(edited.doc, <<"a", "b", "c">>, JsonValue("number", 5, FALSE, <<>>))
    /\ ~HasKey(composed.doc, <<"a">>)
    /\ Holds(edited.doc, GatewayPortPath, composed.port)

\* C24: a restart of a registered instance whose start half fails, the unit
\* being left stopped, reports failure and leaves the record in the
\* registry with the status stopped, whatever status it had before.
C24_FailedRestartRecordsStopped ==
    \A name \in Registered :
      \E r \in {restart_instance(World, name, FALSE, TRUE)} :
        /\ r.res = "error"
        /\ name \notin r.w.running
        /\ r.w.registry[name].status = "stopped"

\* C25: start and stop of a registered instance run the supervisor; when
\* its call succeeds the operation succeeds and the record is persisted
\* with the status running (start) or stopped (stop) and is otherwise as it
\* was; when the call fails the operation fails and the registry is as it
\* was.
C25_StatusFollowsSupervisor ==
    \A name \in Registered, ok \in BOOLEAN :
      \E started \in {start_instance(World, name, ok)},
         stopped \in {stop_instance(World, name, ok)} :
        /\ "systemctl" \in started.calls
        /\ "systemctl" \in stopped.calls
        /\ started.res = IF ok THEN "ok" ELSE "error"
        /\ stopped.res = IF ok THEN "ok" ELSE "error"
        /\ started.w.registry =
             IF ok THEN [registry EXCEPT ![name].status = "running"] ELSE registry
        /\ stopped.w.registry =
             IF ok THEN [registry EXCEPT ![name].status = "stopped"] ELSE registry

\* A start has succeeded: the unit of a registered instance is active and
\* its record says running.
C25_Witness ==
    /\ last.op = "start"
    /\ last.res = "ok"
    /\ \E n \in Registered : registry[n].status = "running" /\ n \in running

\* C26: enable and disable of a registered instance set the autostart value
\* of the record to the one asked for when the supervisor call succeeds and
\* leave it as it was when the call fails; no other field of the record,
\* and no other record, changes in either case.
C26_AutostartFollowsSupervisor ==
    \A name \in Registered, on \in BOOLEAN, ok \in BOOLEAN :
      \E r \in {set_autostart(World, name, on, ok)} :
        /\ r.res = IF ok THEN "ok" ELSE "error"
        /\ r.w.registry =
             IF ok THEN [registry EXCEPT ![name].autostart = on] ELSE registry

\* A disable has failed on an instance that an earlier enable had set to
\* start on boot, and the record still says so.
C26_Witness ==
    /\ last.op = "disable"
    /\ last.res = "error"
    /\ \E n \in Registered : registry[n].autostart

\* C27: the end of the input or an interrupt at the confirmation prompt of
\* delete, or at the selection prompt of enter, is taken as a cancel: the
\* operation ends as Cancelled, no exception leaves it, and the registry,
\* the files and the firewall are as they were.
C27_PromptInterruptCancels ==
    \A typed \in Interrupts :
      /\ \A name \in Registered \ {MAIN_PROFILE}, stopOk \in BOOLEAN,
            unlinkOk \in BOOLEAN, fault \in DeleteFaults :
           \E r \in {delete_command(World, name, FALSE, typed, stopOk, unlinkOk, fault)} :
             r.res = "Cancelled" /\ r.w = World
      /\ Registered # {}
           => \E r \in {use_interactive(World, typed)} :
                r.res = "Cancelled" /\ r.w = World

\* C28: whatever the firewall does (status query, allow, delete: failing or
\* raising), with every other step succeeding a create that is not
\* rejected for its name or port succeeds and registers the instance, and
\* a forced delete of a registered instance other than the reserved one
\* succeeds and removes it from the registry.
C28_FirewallNeverFatal ==
    /\ (last.op = "create" /\ last.res \notin {"InvalidName", "AlreadyExists", "PortInUse"})
         => last.res = "ok" /\ last.name \in Registered
    /\ (last.op = "delete" /\ last.res \notin {"NotFound", "Protected"})
         => last.res = "ok" /\ last.name \notin Registered

\* A create has succeeded on a host whose active firewall raised on the
\* allow command: the instance is registered and its port is not allowed.
C28_Witness ==
    /\ last.op = "create"
    /\ last.res = "ok"
    /\ ufw.status = "active"
    /\ ufw.allow = "raises"
    /\ last.name \in Registered
    /\ registry[last.name].port \notin ufw.rules

\* C29: in every reachable state the port of every registry entry is at
\* least 1024, entries created with an explicitly given port included.
C29_PortsAtLeast1024 ==
    \A n \in Registered : registry[n].port >= 1024

\* C30: in every reachable state the gateway port in the config document of
\* every registered instance that has one equals the port of its registry
\* record, after create, after restore and after any later edit.
C30_ConfigPortIsRegistryPort ==
    \A n \in Registered :
        n \in DOMAIN config => config[n] = registry[n].port

\* C31: a successful edit runs "systemctl restart" exactly when get_status
\* returned "active", that is when the unit runs; an edit of a unit that
\* does not run leaves it not running, and no edit changes the registry.
C31_EditRestartsOnlyTheRunning ==
    \A name \in Registered \cap DOMAIN config :
      \A value \in EditPorts, down \in BOOLEAN :
        /\ \A status \in Statuses :
             \E r \in {edit_try(World, name, status, value, down)} :
               /\ r.res = "ok"
               /\ "systemctl restart" \in r.calls <=> status = "active"
               /\ status # "active" => r.w.running = running
               /\ r.w.registry = registry
        /\ \E r \in {edit_instance(World, name, value, down)} :
             /\ r.res = "ok"
             /\ "systemctl restart" \in r.calls <=> name \in running
             /\ name \notin running => name \notin r.w.running
             /\ r.w.registry = registry

\* An edit of w1 has set its gateway port while its unit was running, and
\* the unit runs after the restart.
C31_Witness ==
    /\ last.op = "edit"
    /\ last.res = "ok"
    /\ Registered = {Worker}
    /\ Worker \in DOMAIN config
    /\ config[Worker] \in EditPorts
    /\ Worker \in running

\* C32: the state directory of a name that create accepts is not the
\* directory of the registry file, so a create, its rollback or a delete of
\* one instance keeps the registry file and leaves the record of every other
\* instance in it as it was.
C32_OtherRecordsKept ==
    [][/\ registry_file.exists => registry_file'.exists
       /\ \A m \in DOMAIN registry :
            m # last'.name => m \in DOMAIN registry' /\ registry'[m] = registry[m]]_vars

\* C33: a delete that has reported success and removed the registry entry
\* has stopped the unit and removed its unit file: when the stop or the
\* removal of the unit file fails, delete does not report success.
C33_DeleteStopsTheService ==
    (last.op = "delete" /\ last.res = "ok" /\ last.name \notin Registered)
      => last.name \notin running /\ last.name \notin service

====
